---- MODULE Spec2Model ----
(***************************************************************************)
(* Model of openlego/components.py: XMLComponent and DisciplineComponent.  *)
(*                                                                         *)
(* Strings that the code takes apart (XPaths, parameter names, aliases)    *)
(* are sequences of tokens; file paths, which the code only concatenates,  *)
(* are TLA+ strings.  An XML document is the set of its leaf elements,     *)
(* each a record [xpath, value]; a Python dict is a function.              *)
(***************************************************************************)
EXTENDS Integers, Sequences, FiniteSets, TLC

VARIABLES
    inputs_from_xml,   \* self.inputs_from_xml : dict name -> default value
    outputs_from_xml,  \* self.outputs_from_xml : dict name -> default value
    keep_files,        \* self.keep_files
    base_file,         \* self.base_file (None or a path)
    last_in_doc,       \* last set_inputs_from_xml call: <<document, names declared
                       \* before it>>, or << >> if there was none
    last_out_doc,      \* the same for set_outputs_from_xml
    now,               \* the wall clock read by datetime.now()
    fs,                \* the file system: path of every existing file -> document
    outputs,           \* the host's output vector
    history,           \* the compute calls made so far: the clock reading,
                       \* the salt and the two paths of each
    call,              \* record of the last compute call
    group,             \* the host group handed to xml_params_as_indep_vars
    indep,             \* record of the last xml_params_as_indep_vars call
    disc_calls,        \* calls received by the discipline's execute
    exec               \* record of the last DisciplineComponent.execute call

vars == <<inputs_from_xml, outputs_from_xml, keep_files, base_file, last_in_doc,
          last_out_doc, now, fs, outputs, history, call, group, indep,
          disc_calls, exec>>

cfg_vars == <<inputs_from_xml, outputs_from_xml, keep_files, base_file,
              last_in_doc, last_out_doc>>
compute_vars == <<now, fs, outputs, history, call>>
indep_vars == <<group, indep>>
exec_vars == <<disc_calls, exec>>

----------------------------------------------------------------------------
(* Bounds *)

MaxVal == 1        \* numeric values range over 0..MaxVal
MaxSecond == 1     \* the clock's second field ranges over 0..MaxSecond
MaxMicro == 1      \* the clock's microsecond field ranges over 0..MaxMicro
MaxCalls == 2      \* number of compute calls made in one behaviour
MaxArgs == 2       \* longest params / values / aliases list
MaxExec == 2       \* number of DisciplineComponent.execute calls in one behaviour

Values == 0..MaxVal

----------------------------------------------------------------------------
(* Python values *)

None == "None"
EmptyDict == << >>

\* dict.update({k: v})
DictUpdate(d, k, v) == [n \in DOMAIN d \cup {k} |-> IF n = k THEN v ELSE d[n]]

\* str.replace(old, new) on a token sequence
Replace(s, old, new) == [i \in 1..Len(s) |-> IF s[i] = old THEN new ELSE s[i]]

\* str.split(sep): the pieces between the occurrences of sep
RECURSIVE Split(_, _)
Split(s, sep) ==
    IF \A i \in 1..Len(s) : s[i] # sep
    THEN <<s>>
    ELSE LET i == CHOOSE j \in 1..Len(s) :
                      s[j] = sep /\ \A k \in 1..(j - 1) : s[k] # sep
         IN <<SubSeq(s, 1, i - 1)>> \o Split(SubSeq(s, i + 1, Len(s)), sep)

----------------------------------------------------------------------------
(* openlego.xml: the path <-> name codec and the document helpers *)

\* XPaths of the leaf elements that occur in the documents of the model
XA == <<"/", "r", "/", "a">>
XB == <<"/", "r", "/", "g", "/", "b", "[", "1", "]">>
XC == <<"/", "r", "/", "c">>
XD == <<"/", "r", "/", "d">>
XPaths == {XA, XB, XC, XD}

xpath_to_param(xpath) == Replace(SubSeq(xpath, 2, Len(xpath)), "/", ":")
param_to_xpath(param) == <<"/">> \o Replace(param, ":", "/")

PA == xpath_to_param(XA)
PB == xpath_to_param(XB)

\* the documents over a set of XPaths: every subset of leaves, any values
DocsOver(xs) ==
    UNION {{{[xpath |-> x, value |-> f[x]] : x \in S} : f \in [S -> Values]} :
           S \in SUBSET xs}

\* xml_to_dict: XPath -> value of every leaf element of the document
xml_to_dict(doc) ==
    [x \in {e.xpath : e \in doc} |-> (CHOOSE e \in doc : e.xpath = x).value]

\* xml_safe_create_element: the document with a leaf at xpath holding value
xml_safe_create_element(doc, xpath, value) ==
    {e \in doc : e.xpath # xpath} \cup {[xpath |-> xpath, value |-> value]}

----------------------------------------------------------------------------
(* XMLComponent.set_inputs_from_xml / set_outputs_from_xml *)

\* the loop of lines 132-134 over the items not yet visited
RECURSIVE UpdateFromItems(_, _, _)
UpdateFromItems(d, items, todo) ==
    IF todo = {} THEN d
    ELSE LET xpath == CHOOSE x \in todo : TRUE
             name == xpath_to_param(xpath)
         IN UpdateFromItems(DictUpdate(d, name, items[xpath]), items,
                            todo \ {xpath})

\* a plausible slip: the mapping is not cleared before it is repopulated
set_from_xml_merging(mapping, doc) ==
    UpdateFromItems(mapping, xml_to_dict(doc), DOMAIN xml_to_dict(doc))

\* clear(), then update() for every item of xml_to_dict(doc)
set_from_xml(mapping, doc) ==
    UpdateFromItems(EmptyDict, xml_to_dict(doc), DOMAIN xml_to_dict(doc))

InputDocs == DocsOver({XA, XB})
OutputDocs == DocsOver({XC, XD})

set_inputs_from_xml(input_xml) ==
    /\ inputs_from_xml' = set_from_xml(inputs_from_xml, input_xml)
    /\ last_in_doc' = <<input_xml, DOMAIN inputs_from_xml>>
    /\ UNCHANGED <<outputs_from_xml, keep_files, base_file, last_out_doc>>
    /\ UNCHANGED <<compute_vars, indep_vars, exec_vars>>

set_outputs_from_xml(output_xml) ==
    /\ outputs_from_xml' = set_from_xml(outputs_from_xml, output_xml)
    /\ last_out_doc' = <<output_xml, DOMAIN outputs_from_xml>>
    /\ UNCHANGED <<inputs_from_xml, keep_files, base_file, last_in_doc>>
    /\ UNCHANGED <<compute_vars, indep_vars, exec_vars>>

\* XMLComponent.__init__: input_xml and output_xml are << >> (None) or <<doc>>
Construct(input_xml, output_xml, keep, base) ==
    /\ inputs_from_xml = IF input_xml = << >> THEN EmptyDict
                         ELSE set_from_xml(EmptyDict, input_xml[1])
    /\ outputs_from_xml = IF output_xml = << >> THEN EmptyDict
                          ELSE set_from_xml(EmptyDict, output_xml[1])
    /\ last_in_doc = IF input_xml = << >> THEN << >> ELSE <<input_xml[1], {}>>
    /\ last_out_doc = IF output_xml = << >> THEN << >> ELSE <<output_xml[1], {}>>
    /\ keep_files = keep
    /\ base_file = base

SetInputs == \E d \in InputDocs : set_inputs_from_xml(d)
SetOutputs == \E d \in OutputDocs : set_outputs_from_xml(d)

----------------------------------------------------------------------------
(* XMLComponent.compute *)

data_folder == "data"
name == "comp"

\* n in decimal, zero-padded to w digits
RECURSIVE Pad(_, _)
Pad(n, w) == IF w = 0 THEN "" ELSE Pad(n \div 10, w - 1) \o ToString(n % 10)

\* datetime.strftime('%Y%m%d%H%M%f'): the format has no seconds field
strftime(t) ==
    Pad(t.year, 4) \o Pad(t.month, 2) \o Pad(t.day, 2) \o Pad(t.hour, 2)
        \o Pad(t.minute, 2) \o Pad(t.microsecond, 6)

\* os.path.join
PathJoin(a, b) == IF a = "" THEN b ELSE a \o "/" \o b

InputPath(salt) == PathJoin(data_folder, name \o "_in_" \o salt \o ".xml")
OutputPath(salt) == PathJoin(data_folder, name \o "_out_" \o salt \o ".xml")

FsWrite(f, path, doc) ==
    [q \in DOMAIN f \cup {path} |-> IF q = path THEN doc ELSE f[q]]
FsRemove(f, path) == [q \in DOMAIN f \ {path} |-> f[q]]

\* an entry of the trace of file operations and calls made by one compute
Event(op, path, other) == [op |-> op, path |-> path, other |-> other]

\* The progress of one compute call: the file system, the trace, the exception
\* raised ("ok" for none), the output vector, and <<dict>> once the output
\* file has been parsed.

\* xml_merge(base, source): reads the source file and merges its elements
\* into the base file
xml_merge(s, base, source) ==
    LET s1 == [s EXCEPT !.log = Append(@, Event("merge", base, source))]
    IN IF source \notin DOMAIN s.fs
       THEN [s1 EXCEPT !.err = "IOError"]
       ELSE LET old == IF base \in DOMAIN s.fs THEN s.fs[base] ELSE {}
                src == s.fs[source]
                merged == {e \in old : \A n \in src : n.xpath # e.xpath} \cup src
            IN [s1 EXCEPT !.fs = FsWrite(@, base, merged)]

\* lines 204-205: one element per declared input, valued from the input vector
RECURSIVE BuildInputDoc(_, _, _)
BuildInputDoc(doc, inputs, todo) ==
    IF todo = {} THEN doc
    ELSE LET param == CHOOSE n \in todo : TRUE
         IN BuildInputDoc(
                xml_safe_create_element(doc, param_to_xpath(param), inputs[param]),
                inputs, todo \ {param})

\* lines 198-210
WriteInput(s, inputs, input_xml) ==
    IF inputs_from_xml = EmptyDict THEN s
    ELSE LET doc == BuildInputDoc({}, inputs, DOMAIN inputs_from_xml)
             s1 == [s EXCEPT !.fs = FsWrite(@, input_xml, doc),
                             !.log = Append(@, Event("write", input_xml, ""))]
         IN IF base_file # None THEN xml_merge(s1, base_file, input_xml) ELSE s1

\* the abstract execute(input_xml, output_xml): the wrapped tool raises,
\* returns without an output file, or writes one
RunTool(s, input_xml, output_xml, tool) ==
    LET s1 == [s EXCEPT !.log = Append(@, Event("execute", input_xml, output_xml))]
    IN CASE tool.kind = "raise" -> [s1 EXCEPT !.err = "ToolError"]
         [] tool.kind = "none" -> s1
         [] tool.kind = "write" -> [s1 EXCEPT !.fs = FsWrite(@, output_xml, tool.doc)]

\* a plausible slip: execute is always handed the temporary input file
ExecuteInputAlwaysTemp(input_xml) == input_xml

\* lines 213-217: the input path execute is called with
ExecuteInput(input_xml) == IF base_file # None THEN base_file ELSE input_xml

\* lines 212-217
CallExecute(s, input_xml, output_xml, tool) ==
    IF s.err # "ok" THEN s
    ELSE LET s1 == RunTool(s, ExecuteInput(input_xml), output_xml, tool)
         IN IF base_file # None /\ s1.err = "ok"
            THEN xml_merge(s1, base_file, output_xml)
            ELSE s1

\* os.remove inside try / except OSError: pass
RemoveQuietly(s, path) ==
    [s EXCEPT !.fs = FsRemove(@, path),
              !.log = Append(@, Event("remove", path, ""))]

\* lines 219-224
RemoveInput(s, input_xml) ==
    IF s.err # "ok" \/ keep_files THEN s ELSE RemoveQuietly(s, input_xml)

\* a plausible slip: every parsed name is stored, declared or not
RECURSIVE StoreOutputsUnguarded(_, _, _)
StoreOutputsUnguarded(outs, items, todo) ==
    IF todo = {} THEN outs
    ELSE LET xpath == CHOOSE x \in todo : TRUE
         IN StoreOutputsUnguarded(
                DictUpdate(outs, xpath_to_param(xpath), items[xpath]),
                items, todo \ {xpath})

\* lines 228-231 over the items not yet visited
RECURSIVE StoreOutputs(_, _, _)
StoreOutputs(outs, items, todo) ==
    IF todo = {} THEN outs
    ELSE LET xpath == CHOOSE x \in todo : TRUE
             pname == xpath_to_param(xpath)
         IN StoreOutputs(IF pname \in DOMAIN outputs_from_xml
                         THEN DictUpdate(outs, pname, items[xpath])
                         ELSE outs,
                         items, todo \ {xpath})

\* a plausible slip: the output file is read whether or not outputs are declared
OutputsDeclaredAlways == TRUE

\* line 226
OutputsDeclared == outputs_from_xml # EmptyDict

\* lines 226-238
ReadOutputs(s, output_xml) ==
    IF s.err # "ok" \/ ~OutputsDeclared THEN s
    ELSE LET s1 == [s EXCEPT !.log = Append(@, Event("parse", output_xml, ""))]
         IN IF output_xml \notin DOMAIN s.fs
            THEN [s1 EXCEPT !.err = "IOError"]
            ELSE LET items == xml_to_dict(s.fs[output_xml])
                     s2 == [s1 EXCEPT !.parsed = <<items>>,
                                      !.outputs = StoreOutputs(@, items, DOMAIN items)]
                 IN IF keep_files THEN s2 ELSE RemoveQuietly(s2, output_xml)

\* the readings of the wall clock, and their order
Instants ==
    {[year |-> 2017, month |-> 1, day |-> 1, hour |-> 0,
      minute |-> 0, second |-> sec, microsecond |-> f] :
        sec \in 0..MaxSecond, f \in 0..MaxMicro}

Later(t, u) ==
    \/ u.second > t.second
    \/ u.second = t.second /\ u.microsecond > t.microsecond

\* The four parts of compute run one after the other, each from the progress
\* the one before it has left.  A call takes time: the clock has moved on
\* since the call before it read it.
compute(inputs, tool) ==
    /\ Len(history) < MaxCalls
    /\ history # << >> => Later(history[Len(history)].time, now)
    /\ \E salt \in {strftime(now)} :
       \E input_xml \in {InputPath(salt)}, output_xml \in {OutputPath(salt)} :
       \E s1 \in {WriteInput([fs |-> fs, log |-> << >>, err |-> "ok",
                              outputs |-> outputs, parsed |-> << >>],
                             inputs, input_xml)} :
       \E s2 \in {CallExecute(s1, input_xml, output_xml, tool)} :
       \E s3 \in {RemoveInput(s2, input_xml)} :
       \E r \in {ReadOutputs(s3, output_xml)} :
          /\ fs' = r.fs
          /\ outputs' = r.outputs
          /\ history' = Append(history, [time |-> now, salt |-> salt,
                                         input_xml |-> input_xml,
                                         output_xml |-> output_xml])
          /\ call' = [made |-> TRUE, inputs |-> inputs, tool |-> tool,
                      input_xml |-> input_xml, output_xml |-> output_xml,
                      log |-> r.log, err |-> r.err, parsed |-> r.parsed,
                      outputs_before |-> outputs]
    /\ UNCHANGED <<now, cfg_vars, indep_vars, exec_vars>>

\* the output documents a tool writes: any of the leaves c and d, c with a
\* value other than the template's default
ToolDocs ==
    {d \in OutputDocs : \A e \in d : IF e.xpath = XC THEN e.value = MaxVal
                                     ELSE e.value = 0}

Tools ==
    {[kind |-> "raise", doc |-> {}], [kind |-> "none", doc |-> {}]}
        \cup {[kind |-> "write", doc |-> d] : d \in ToolDocs}

Compute ==
    \E inputs \in {v \in [DOMAIN inputs_from_xml -> {0, MaxVal}] :
                        \A n \in DOMAIN v : n # PA => v[n] = 0},
       tool \in Tools :
        compute(inputs, tool)

\* the wall clock moves on between two calls
Tick ==
    /\ Len(history) < MaxCalls
    /\ \E u \in Instants : Later(now, u) /\ now' = u
    /\ UNCHANGED <<fs, outputs, history, call, cfg_vars, indep_vars, exec_vars>>

----------------------------------------------------------------------------
(* XMLComponent.xml_params_as_indep_vars *)

\* Group.add(alias, IndepVarComp(alias, val=val), promotes=[alias])
GroupAdd(g, alias, val) ==
    [g EXCEPT !.subsystems =
        Append(@, [name |-> alias, val |-> val, promotes |-> <<alias>>])]

\* Group.connect(source, target)
GroupConnect(g, source, target) ==
    [g EXCEPT !.connections = Append(@, <<source, target>>)]

\* line 267: 'INDEP_' + param_to_xpath(param).split('/')[-1].split('[')[0]
DerivedAlias(param) ==
    LET segments == Split(param_to_xpath(param), "/")
    IN <<"INDEP_">> \o Split(segments[Len(segments)], "[")[1]

\* line 258.  aliases is << >> for None and <<list>> for a list.  Python
\* evaluates the condition left to right: when the first comparison is false
\* and aliases is None, len(aliases) is len(None), a TypeError; when aliases
\* is a list, the and is false without its length being looked at.
LengthCheck(params, values, aliases) ==
    IF Len(params) # Len(values) THEN "ValueError"
    ELSE IF aliases = << >> THEN "TypeError"
    ELSE "ok"

\* lines 261-263
DeclaredCheck(params) ==
    IF \E i \in 1..Len(params) : params[i] \notin DOMAIN inputs_from_xml
    THEN "ValueError" ELSE "ok"

\* lines 265-272, from position index on: the group reached and how the loop
\* ended.  aliases[index] beyond the end of the list is an IndexError, raised
\* after the earlier params have been added and connected.
RECURSIVE BindLoop(_, _, _, _, _)
BindLoop(g, params, values, aliases, index) ==
    IF index > Len(params) THEN [group |-> g, err |-> "ok"]
    ELSE IF aliases # << >> /\ index > Len(aliases[1])
    THEN [group |-> g, err |-> "IndexError"]
    ELSE LET param == params[index]
             alias == IF aliases = << >> THEN DerivedAlias(param)
                      ELSE aliases[1][index]
         IN BindLoop(GroupConnect(GroupAdd(g, alias, values[index]), alias, param),
                     params, values, aliases, index + 1)

\* the whole call: the group it leaves and the exception it raises, if any
BindResult(g, params, values, aliases) ==
    IF LengthCheck(params, values, aliases) # "ok"
    THEN [group |-> g, err |-> LengthCheck(params, values, aliases)]
    ELSE IF DeclaredCheck(params) # "ok"
    THEN [group |-> g, err |-> DeclaredCheck(params)]
    ELSE BindLoop(g, params, values, aliases, 1)

xml_params_as_indep_vars(params, values, aliases) ==
    /\ indep.made = FALSE
    /\ group' = BindResult(group, params, values, aliases).group
    /\ indep' = [made |-> TRUE, params |-> params, values |-> values,
                 aliases |-> aliases, group_before |-> group,
                 err |-> BindResult(group, params, values, aliases).err]
    /\ UNCHANGED <<cfg_vars, compute_vars, exec_vars>>

AliasNames == {<<"p">>, <<"q">>}
SeqsUpTo(S, n) == UNION {[1..k -> S] : k \in 0..n}

BindAsIndepVars ==
    \E params \in SeqsUpTo({PA, PB}, MaxArgs),
       values \in SeqsUpTo(Values, MaxArgs),
       aliases \in {<< >>} \cup {<<a>> : a \in SeqsUpTo(AliasNames, MaxArgs)} :
        xml_params_as_indep_vars(params, values, aliases)

----------------------------------------------------------------------------
(* DisciplineComponent.execute *)

\* a plausible slip: only the input path is required
PathMissingInputOnly(input_xml, output_xml) == input_xml = None

\* line 357
PathMissing(input_xml, output_xml) == input_xml = None \/ output_xml = None

\* tool is what the discipline's own execute does when it is called:
\* "ok" to return, "ToolError" to raise
execute(input_xml, output_xml, tool) ==
    /\ exec.n < MaxExec
    /\ IF PathMissing(input_xml, output_xml)
       THEN /\ disc_calls' = disc_calls
            /\ exec' = [made |-> TRUE, n |-> exec.n + 1, input_xml |-> input_xml,
                        output_xml |-> output_xml, tool |-> tool,
                        calls_before |-> disc_calls, err |-> "ValueError"]
       ELSE /\ disc_calls' = Append(disc_calls, <<input_xml, output_xml>>)
            /\ exec' = [made |-> TRUE, n |-> exec.n + 1, input_xml |-> input_xml,
                        output_xml |-> output_xml, tool |-> tool,
                        calls_before |-> disc_calls, err |-> tool]
    /\ UNCHANGED <<cfg_vars, compute_vars, indep_vars>>

ExecPaths == {None, "", "in.xml", "out.xml"}

Execute ==
    \E input_xml \in ExecPaths, output_xml \in ExecPaths,
       tool \in {"ok", "ToolError"} :
        execute(input_xml, output_xml, tool)

----------------------------------------------------------------------------
(* Variables a specification does not use keep these values *)

IdleCompute ==
    /\ now = [year |-> 2017, month |-> 1, day |-> 1, hour |-> 0,
              minute |-> 0, second |-> 0, microsecond |-> 0]
    /\ fs = << >>
    /\ outputs = EmptyDict
    /\ history = << >>
    /\ call = [made |-> FALSE]

IdleIndep ==
    /\ group = [subsystems |-> << >>, connections |-> << >>]
    /\ indep = [made |-> FALSE]

IdleExec ==
    /\ disc_calls = << >>
    /\ exec = [made |-> FALSE, n |-> 0]

----------------------------------------------------------------------------
(* Specification of the template setters *)

InitCfg ==
    /\ \E i \in {<< >>} \cup {<<d>> : d \in InputDocs},
          o \in {<< >>} \cup {<<d>> : d \in OutputDocs} :
          Construct(i, o, FALSE, None)
    /\ IdleCompute /\ IdleIndep /\ IdleExec

NextCfg == SetInputs \/ SetOutputs

SpecCfg == InitCfg /\ [][NextCfg]_vars

\* C8: set_inputs_from_xml and set_outputs_from_xml replace rather than merge:
\* after any sequence of calls each mapping holds exactly the parameter names
\* and values of the document last passed to its own setter (the names of
\* earlier documents are gone), and a call leaves the other mapping as it was.
ExactlyTheItemsOf(mapping, doc) ==
    /\ DOMAIN mapping = {xpath_to_param(e.xpath) : e \in doc}
    /\ \A e \in doc : mapping[xpath_to_param(e.xpath)] = e.value

----------------------------------------------------------------------------
(* Specification of xml_params_as_indep_vars *)

InitIndep ==
    /\ \E i \in {<< >>} \cup {<<d>> : d \in InputDocs} :
          Construct(i, << >>, FALSE, None)
    /\ IdleCompute /\ IdleExec
    /\ group \in {[subsystems |-> << >>, connections |-> << >>],
                  GroupAdd([subsystems |-> << >>, connections |-> << >>],
                           <<"z">>, 0)}
    /\ indep = [made |-> FALSE]

NextIndep == BindAsIndepVars

SpecIndep == InitIndep /\ [][NextIndep]_vars

LengthsMismatch ==
    \/ Len(indep.params) # Len(indep.values)
    \/ /\ indep.aliases # << >>
       /\ \/ Len(indep.aliases[1]) # Len(indep.params)
          \/ Len(indep.aliases[1]) # Len(indep.values)

\* C1: a call whose params, values and (when supplied) aliases do not all
\* have the same length raises ValueError and leaves the group as it was.
MismatchRaisesAndKeepsGroup ==
    (indep.made /\ LengthsMismatch) =>
        (indep.err = "ValueError" /\ group = indep.group_before)

\* the group the call is to build: one independent variable per param, under
\* the alias derived from the param, promoted and connected to the param
RECURSIVE DerivedBindings(_, _, _, _)
DerivedBindings(g, params, values, index) ==
    IF index > Len(params) THEN g
    ELSE DerivedBindings(
             GroupConnect(GroupAdd(g, DerivedAlias(params[index]), values[index]),
                          DerivedAlias(params[index]), params[index]),
             params, values, index + 1)

\* C2: a call without aliases, with params and values of equal length and
\* every param a declared input, completes without error and adds for each
\* param one independent variable under the derived alias, connected to it.
NoAliasesBindsDerived ==
    (/\ indep.made
     /\ indep.aliases = << >>
     /\ Len(indep.params) = Len(indep.values)
     /\ \A i \in 1..Len(indep.params) : indep.params[i] \in DOMAIN inputs_from_xml)
    => (/\ indep.err = "ok"
        /\ group = DerivedBindings(indep.group_before, indep.params,
                                   indep.values, 1))

----------------------------------------------------------------------------
(* Specification of DisciplineComponent.execute *)

InitExec ==
    /\ \E i \in {<< >>, <<{[xpath |-> XA, value |-> 0]}>>} :
          Construct(i, << >>, FALSE, None)
    /\ IdleCompute /\ IdleIndep /\ IdleExec

NextExec == Execute

SpecExec == InitExec /\ [][NextExec]_vars

\* C7 as claimed: a missing or empty path raises ValueError without the
\* discipline being invoked; otherwise the discipline is invoked exactly once
\* with the two paths and its failure propagates unchanged.
MissingOrEmptyPathRaises ==
    exec.made =>
        IF exec.input_xml \in {None, ""} \/ exec.output_xml \in {None, ""}
        THEN exec.err = "ValueError" /\ disc_calls = exec.calls_before
        ELSE /\ disc_calls = Append(exec.calls_before,
                                    <<exec.input_xml, exec.output_xml>>)
             /\ exec.err = exec.tool

\* C7 as amended: only a missing (None) path raises ValueError without the
\* discipline being invoked; with both paths given, empty strings included,
\* the discipline is invoked exactly once with the two paths and its failure
\* propagates unchanged.
MissingPathRaises ==
    exec.made =>
        IF exec.input_xml = None \/ exec.output_xml = None
        THEN exec.err = "ValueError" /\ disc_calls = exec.calls_before
        ELSE /\ disc_calls = Append(exec.calls_before,
                                    <<exec.input_xml, exec.output_xml>>)
             /\ exec.err = exec.tool

\* a call without an output path was refused after a call with both paths
\* whose discipline failed had gone through
MissingPathRaisesWitness ==
    /\ exec.made
    /\ exec.input_xml = "in.xml" /\ exec.output_xml = None
    /\ exec.err = "ValueError"
    /\ disc_calls = <<<<"in.xml", "out.xml">>>>

----------------------------------------------------------------------------
(* Specification of compute *)

BasePath == "base.xml"
TemplateAB == {[xpath |-> XA, value |-> 0], [xpath |-> XB, value |-> 0]}
TemplateC == {[xpath |-> XC, value |-> 0]}

\* after construction and setup(): the output vector holds the default of
\* every declared output, and a configured base document exists
InitCompute ==
    /\ \E i \in {<< >>, <<TemplateAB>>},
          o \in {<< >>, <<TemplateC>>},
          keep \in BOOLEAN, base \in {None, BasePath} :
          Construct(i, o, keep, base)
    /\ now = [year |-> 2017, month |-> 1, day |-> 1, hour |-> 0,
              minute |-> 0, second |-> 0, microsecond |-> 0]
    /\ fs = IF base_file # None THEN [q \in {base_file} |-> {}] ELSE << >>
    /\ outputs = outputs_from_xml
    /\ history = << >>
    /\ call = [made |-> FALSE]
    /\ IdleIndep /\ IdleExec

NextCompute == Compute \/ Tick

SpecCompute == InitCompute /\ [][NextCompute]_vars

Returned == call.made /\ call.err = "ok"

\* C3: two compute calls of the component, made at different readings of the
\* clock, never get the same salt, hence never the same temporary input path
\* or output path.
SaltsDistinct ==
    \A i, j \in 1..Len(history) :
        i # j => /\ history[i].salt # history[j].salt
                 /\ history[i].input_xml # history[j].input_xml
                 /\ history[i].output_xml # history[j].output_xml

\* the trace holds an event that reads the output file of the call
ReadsOutputFile ==
    \E k \in 1..Len(call.log) :
        \/ call.log[k].op = "parse" /\ call.log[k].path = call.output_xml
        \/ call.log[k].op = "merge" /\ call.log[k].other = call.output_xml

ParsesOutputFile ==
    \/ call.parsed # << >>
    \/ \E k \in 1..Len(call.log) : call.log[k].op = "parse"

\* C4 as claimed: with no declared outputs a compute call never reads or
\* parses the output file, in every configuration of the adapter.
NoOutputsNeverReadsOutputFile ==
    (call.made /\ outputs_from_xml = EmptyDict) => ~ReadsOutputFile

\* C4 as amended: with no declared outputs a compute call never parses the
\* output file into the output vector, and without a base document it does
\* not read the output file at all; with a base document configured the
\* output file is still read by the merge into the base document.
NoOutputsNeverParsesOutputFile ==
    (call.made /\ outputs_from_xml = EmptyDict) =>
        /\ ~ParsesOutputFile
        /\ outputs = call.outputs_before
        /\ base_file = None => ~ReadsOutputFile

\* no outputs declared, a base document configured, the tool wrote its output
\* file and the call returned
NoOutputsNeverParsesOutputFileWitness ==
    /\ Returned
    /\ outputs_from_xml = EmptyDict
    /\ inputs_from_xml # EmptyDict
    /\ base_file # None
    /\ call.tool.kind = "write"
    /\ ReadsOutputFile

\* C5: with keep_files False, once a compute call has returned neither its
\* temporary input file nor its temporary output file exists.
TempFilesGoneAfterReturn ==
    (Returned /\ ~keep_files) =>
        /\ call.input_xml \notin DOMAIN fs
        /\ call.output_xml \notin DOMAIN fs

\* C6: with no declared inputs and no base document, a compute call writes no
\* input file and calls execute with None or an empty placeholder as its
\* input path, never with the path of a file that was not written.
NoInputsExecuteGetsNoPath ==
    (call.made /\ inputs_from_xml = EmptyDict /\ base_file = None) =>
        \A k \in 1..Len(call.log) :
            /\ call.log[k].op # "write"
            /\ call.log[k].op = "execute" => call.log[k].path \in {None, ""}

\* the trace of a compute call that runs to its end
ExpectedLog ==
    LET in == call.input_xml
        out == call.output_xml
    IN (IF inputs_from_xml = EmptyDict THEN << >>
        ELSE IF base_file # None
        THEN <<Event("write", in, ""), Event("merge", base_file, in)>>
        ELSE <<Event("write", in, "")>>)
       \o (IF base_file # None
           THEN <<Event("execute", base_file, out), Event("merge", base_file, out)>>
           ELSE <<Event("execute", in, out)>>)
       \o (IF keep_files THEN << >> ELSE <<Event("remove", in, "")>>)
       \o (IF outputs_from_xml = EmptyDict THEN << >>
           ELSE IF keep_files THEN <<Event("parse", out, "")>>
           ELSE <<Event("parse", out, ""), Event("remove", out, "")>>)

PC == xpath_to_param(XC)
PD == xpath_to_param(XD)

\* C10: a compute call that returns has written into the output vector
\* exactly the entries whose name is declared as an output and present in the
\* parsed output file, each with the value read from the file; a name that is
\* in the file but not declared is not written, a declared output absent from
\* the file keeps its value, and both template mappings are left unchanged.
OutputsFrame ==
    [][(Len(history') > Len(history) /\ call'.err = "ok") =>
        /\ DOMAIN outputs' = DOMAIN outputs
        /\ \A n \in DOMAIN outputs' :
              IF /\ call'.parsed # << >>
                 /\ n \in DOMAIN outputs_from_xml
                 /\ param_to_xpath(n) \in DOMAIN call'.parsed[1]
              THEN outputs'[n] = call'.parsed[1][param_to_xpath(n)]
              ELSE outputs'[n] = outputs[n]
        /\ inputs_from_xml' = inputs_from_xml
        /\ outputs_from_xml' = outputs_from_xml]_vars

\* one call has stored a value read from its output file, and a later call
\* whose output file held only an undeclared name has left it in place
OutputsFrameWitness ==
    /\ Returned
    /\ Len(history) = 2
    /\ call.parsed # << >>
    /\ DOMAIN call.parsed[1] = {XD}
    /\ call.outputs_before[PC] = MaxVal
    /\ outputs[PC] = MaxVal
    /\ PD \notin DOMAIN outputs

====
